---- MODULE Spec2Model ----
(***************************************************************************)
(* Model of src/_worker.js: the front controller (fetch), the WebSocket    *)
(* relay (handleWebSocket, connectWebSocket) and the HTTP relay            *)
(* (handleHTTP), with the responses they build.                            *)
(*                                                                         *)
(* Strings are sequences of lexical tokens (words and the punctuation      *)
(* ":", "/", "?"), so that URL parsing, serialisation, substring and       *)
(* concatenation are computed rather than assumed.                         *)
(***************************************************************************)
EXTENDS Integers, Sequences, FiniteSets, TLC

(***************************************************************************)
(* Bounds of the model.                                                    *)
(***************************************************************************)
\* most message events delivered to one session (both directions together)
MaxMsgs == 2
\* most requests handled concurrently in the multi-session specification
MaxReqs == 2
\* longest time a request is observed waiting for its outbound fetch (ms)
MaxElapsed == 40000
\* the step of the model's clock (ms)
TickMs == 10000

(***************************************************************************)
(* Strings.                                                                *)
(***************************************************************************)
\* JavaScript null, as returned by URLSearchParams.get for an absent name
Null == <<"#null">>

\* JavaScript truthiness of a string-or-null value
Truthy(s) == s # Null /\ s # <<>>

\* String.prototype.substring(1) on a token string
Substring1(s) == IF Len(s) = 0 THEN <<>> ELSE SubSeq(s, 2, Len(s))

\* position of the first occurrence of token t in s, or 0
RECURSIVE IndexFrom(_, _, _)
IndexFrom(s, t, i) ==
  IF i > Len(s) THEN 0
  ELSE IF s[i] = t THEN i
  ELSE IndexFrom(s, t, i + 1)

IndexOf(s, t) == IndexFrom(s, t, 1)

\* ASCII lower-casing of the words the model uses
ToLower(w) ==
  CASE w = "HTTP"  -> "http"
    [] w = "HTTPS" -> "https"
    [] w = "WSS"   -> "wss"
    [] OTHER       -> w

\* words that begin with the four characters "http"
HttpPrefixed == {"http", "https", "httpbin"}

\* String.prototype.startsWith('http')
StartsWithHttp(s) == Len(s) > 0 /\ s[1] \in HttpPrefixed

(***************************************************************************)
(* URL records: new URL(string), the protocol setter and toString(), as    *)
(* the URL standard defines them for absolute URLs without a base.         *)
(***************************************************************************)
Punct == {":", "/", "?"}

\* words made of digits only
DigitWords == {"80", "443", "8080"}

\* a scheme is a word that starts with a letter and has only scheme characters
IsSchemeWord(w) == w \notin Punct /\ w \notin DigitWords /\ w \notin {"a@b", "q=1", "target="}

SpecialSchemes == {"http", "https", "ws", "wss", "ftp"}

DefaultPort(scheme) ==
  CASE scheme \in {"http", "ws"}   -> "80"
    [] scheme \in {"https", "wss"} -> "443"
    [] scheme = "ftp"              -> "21"
    [] OTHER                       -> ""

\* the value new URL() throws instead of returning
Invalid == [valid |-> FALSE]

MkURL(scheme, host, port, path, query) ==
  [valid |-> TRUE, scheme |-> scheme, host |-> host, port |-> port,
   path |-> path, query |-> query]

\* the leading "/" tokens of s removed
RECURSIVE SkipSlashes(_)
SkipSlashes(s) ==
  IF Len(s) > 0 /\ s[1] = "/" THEN SkipSlashes(Tail(s)) ELSE s

\* splits "path?query" into path and query ("" when there is no "?")
PathOf(s) == IF IndexOf(s, "?") = 0 THEN s ELSE SubSeq(s, 1, IndexOf(s, "?") - 1)

QueryOf(s) == IF IndexOf(s, "?") = 0 THEN <<>> ELSE SubSeq(s, IndexOf(s, "?") + 1, Len(s))

\* host, optional port and the rest, of a special URL after its slashes
ParseAuthority(scheme, a) ==
  IF Len(a) = 0 \/ a[1] \in Punct
  THEN Invalid
  ELSE LET host    == a[1]
           hasPort == Len(a) >= 2 /\ a[2] = ":"
           portTok == IF hasPort /\ Len(a) >= 3 /\ a[3] \in DigitWords THEN a[3] ELSE ""
           afterPt == IF ~hasPort THEN SubSeq(a, 2, Len(a))
                      ELSE IF portTok = "" THEN SubSeq(a, 3, Len(a))
                      ELSE SubSeq(a, 4, Len(a))
           port    == IF portTok = DefaultPort(scheme) THEN "" ELSE portTok
           path    == IF PathOf(afterPt) = <<>> THEN <<"/">> ELSE PathOf(afterPt)
       IN IF Len(afterPt) > 0 /\ afterPt[1] \notin {"/", "?"}
          THEN Invalid
          ELSE MkURL(scheme, host, port, path, QueryOf(afterPt))

\* the basic URL parser applied to s without a base URL
ParseAbsolute(s) ==
  IF s = Null \/ Len(s) < 2 \/ ~IsSchemeWord(s[1]) \/ s[2] # ":"
  THEN Invalid
  ELSE LET scheme == ToLower(s[1])
           rest   == SubSeq(s, 3, Len(s))
       IN IF scheme \in SpecialSchemes
          THEN ParseAuthority(scheme, SkipSlashes(rest))
          ELSE IF Len(rest) >= 2 /\ rest[1] = "/" /\ rest[2] = "/"
               THEN LET a == SubSeq(rest, 3, Len(rest))
                    IN IF Len(a) = 0 \/ a[1] \in Punct
                       THEN MkURL(scheme, "", "", PathOf(a), QueryOf(a))
                       ELSE MkURL(scheme, a[1], "", PathOf(Tail(a)), QueryOf(Tail(a)))
               ELSE MkURL(scheme, "", "", PathOf(rest), QueryOf(rest))

\* a parser that resolves a string without a scheme against a base URL
ParseURLWithBase(s) ==
  IF ParseAbsolute(s).valid THEN ParseAbsolute(s)
  ELSE IF s = Null THEN Invalid
  ELSE ParseAbsolute(<<"https", ":", "/", "/">> \o s)

\* new URL(s): a URL record, or Invalid where the constructor throws TypeError
ParseURL(s) == ParseAbsolute(s)

\* URL.prototype.toString(): the serialisation of a URL record
Serialize(u) ==
  <<u.scheme, ":">>
  \o (IF u.host # "" THEN <<"/", "/", u.host>> ELSE <<>>)
  \o (IF u.port # "" THEN <<":", u.port>> ELSE <<>>)
  \o u.path
  \o (IF u.query # <<>> THEN <<"?">> \o u.query ELSE <<>>)

\* URL.prototype.host: hostname, with the port when it is not the default
HostOf(u) == IF u.port = "" THEN <<u.host>> ELSE <<u.host, ":", u.port>>

\* a protocol replacement that loses the secure scheme
CoerceSchemeInsecure(u) ==
  IF u.scheme \in {"http", "https"} THEN [u EXCEPT !.scheme = "ws"] ELSE u

\* the protocol replacement of handleWebSocket
CoerceScheme(u) ==
  IF u.scheme = "http" THEN [u EXCEPT !.scheme = "ws"]
  ELSE IF u.scheme = "https" THEN [u EXCEPT !.scheme = "wss"]
  ELSE u

(***************************************************************************)
(* CONFIG (the fields the relay reads).                                    *)
(***************************************************************************)
CORS ==
  [enabled |-> TRUE, allowOrigin |-> <<"*">>,
   allowMethods |-> <<"GET, POST, PUT, DELETE, OPTIONS, HEAD, PATCH">>,
   allowHeaders |-> <<"*">>, maxAge |-> <<"86400">>]

SECURITY_HEADERS ==
  [n \in {"x-content-type-options", "x-frame-options", "x-xss-protection",
          "referrer-policy"} |->
     CASE n = "x-content-type-options" -> <<"nosniff">>
       [] n = "x-frame-options"        -> <<"SAMEORIGIN">>
       [] n = "x-xss-protection"       -> <<"1; mode=block">>
       [] n = "referrer-policy"        -> <<"strict-origin-when-cross-origin">>]

REMOVE_HEADERS ==
  {"cf-ray", "cf-connecting-ip", "cf-visitor", "cf-request-id",
   "x-forwarded-for", "x-forwarded-proto", "x-real-ip"}

\* CONFIG.TIMEOUT, in milliseconds
TIMEOUT == 30000

\* the values DEFAULT_TARGET is deployed with: null, or a base URL
DefaultTargets == {Null, <<"https", ":", "/", "/", "api.example.com">>}

(***************************************************************************)
(* Headers objects: a function from lower-cased names to values.           *)
(***************************************************************************)
NoHeaders == [n \in {} |-> <<>>]

\* the lower-casing the Headers class applies to a name it is given
LowerName(name) ==
  CASE name = "Host"    -> "host"
    [] name = "Origin"  -> "origin"
    [] name = "Upgrade" -> "upgrade"
    [] OTHER            -> name

\* Headers.prototype.get: the value, or null
HeadersGet(h, name) == IF LowerName(name) \in DOMAIN h THEN h[LowerName(name)] ELSE Null

\* Headers.prototype.set
HeadersSet(h, name, value) ==
  [n \in DOMAIN h \cup {LowerName(name)} |-> IF n = LowerName(name) THEN value ELSE h[n]]

\* Headers.prototype.delete, for each name of a list
HeadersDeleteAll(h, names) == [n \in DOMAIN h \ {LowerName(m) : m \in names} |-> h[n]]

\* the headers of a response built from an object literal spreading b over a
Merge(a, b) == [n \in DOMAIN a \cup DOMAIN b |-> IF n \in DOMAIN b THEN b[n] ELSE a[n]]

(***************************************************************************)
(* Requests.                                                               *)
(***************************************************************************)
S_wss     == <<"wss", ":", "/", "/", "echo.example", "/", "socket">>
S_https   == <<"https", ":", "/", "/", "x.example", "/", "y">>
S_httpq   == <<"http", ":", "/", "/", "x.example", ":", "8080", "/", "y", "?", "q=1">>
S_defport == <<"https", ":", "/", "/", "x.example", ":", "443">>
S_upper   == <<"HTTP", ":", "/", "/", "x.example">>
S_ftp     == <<"ftp", ":", "/", "/", "x.example", "/", "y">>
S_mailto  == <<"mailto", ":", "a@b">>
S_rel     == <<"x.example", "/", "y">>
S_nohost  == <<"https", ":", "/", "/">>

\* the values of the target query parameter the model draws from
TargetStrings ==
  {S_wss, S_https, S_httpq, S_defport, S_upper, S_ftp, S_mailto, S_rel, S_nohost}

\* url.search of the inbound request
SearchStrings ==
  {<<>>, <<"?", "q=1">>, <<"?", "target=">>}
  \cup {<<"?", "target=">> \o t : t \in TargetStrings}

\* url.pathname of the inbound request
PathStrings ==
  {<<"/">>, <<"/", "endpoint">>, <<"/", "httpbin">>, <<"/">> \o S_https}

Methods == {"GET", "OPTIONS", "POST"}

\* request.body: null, or the stream of a request that carries content
RequestBodies == {Null, <<"payload">>}

\* the headers of a plain client: its Host names the worker
HdrPlain ==
  [n \in {"host", "accept"} |->
     IF n = "host" THEN <<"relay.example">> ELSE <<"*/*">>]

\* the headers of a browser behind the edge: Host, Origin, headers the edge
\* added, and headers of the application
HdrFull ==
  [n \in {"host", "origin", "cf-ray", "cf-connecting-ip", "x-forwarded-for",
          "x-real-ip", "authorization", "content-type"} |->
     CASE n = "host"             -> <<"relay.example">>
       [] n = "origin"           -> <<"https://app.example">>
       [] n = "cf-ray"           -> <<"8f1e2d3c4b5a">>
       [] n = "cf-connecting-ip" -> <<"203.0.113.7">>
       [] n = "x-forwarded-for"  -> <<"203.0.113.7">>
       [] n = "x-real-ip"        -> <<"203.0.113.7">>
       [] n = "authorization"    -> <<"Bearer t0k3n">>
       [] n = "content-type"     -> <<"text/plain">>]

\* the inbound header sets: without Upgrade, with two spellings of it, and
\* the two of HTTP clients
HeaderSets ==
  {NoHeaders, [n \in {"upgrade"} |-> <<"websocket">>],
   [n \in {"upgrade"} |-> <<"WebSocket">>], HdrPlain, HdrFull}

\* url.searchParams.get('target')
SearchParamsGet(search) ==
  IF Len(search) >= 2 /\ search[2] = "target=" THEN SubSeq(search, 3, Len(search))
  ELSE Null

\* the inbound requests: a POST carries a body and the other methods none; a
\* request with headers and a target parameter is for the root path, and so
\* is a POST; an Upgrade header comes with GET or OPTIONS
Requests ==
  {q \in [method : Methods, headers : HeaderSets, path : PathStrings,
          search : SearchStrings, body : RequestBodies] :
     /\ q.body # Null <=> q.method = "POST"
     /\ q.headers # NoHeaders /\ SearchParamsGet(q.search) \notin {Null, <<>>}
          => q.path = <<"/">>
     /\ q.method = "POST" => q.path = <<"/">> /\ "upgrade" \notin DOMAIN q.headers}

(***************************************************************************)
(* Responses.                                                              *)
(***************************************************************************)
NoBody == [kind |-> "none", fields |-> {}]

\* new Response(body, init) with no statusText given
Response(status, body, webSocket, headers) ==
  [status |-> status, statusText |-> "", body |-> body, webSocket |-> webSocket,
   headers |-> headers]

\* the value of resp while no response has been returned
NoResp == Response(0, NoBody, FALSE, NoHeaders)

HandleCORS ==
  Response(204, NoBody, FALSE,
    [n \in {"access-control-allow-origin", "access-control-allow-methods",
            "access-control-allow-headers", "access-control-max-age"} |->
       CASE n = "access-control-allow-origin"  -> CORS.allowOrigin
         [] n = "access-control-allow-methods" -> CORS.allowMethods
         [] n = "access-control-allow-headers" -> CORS.allowHeaders
         [] n = "access-control-max-age"       -> CORS.maxAge])

JsonHeaders == Merge([n \in {"content-type"} |-> <<"application/json">>], SECURITY_HEADERS)

CreateInfoResponse ==
  Response(200,
    [kind |-> "json",
     fields |-> {"name", "version", "description", "usage", "features", "examples"}],
    FALSE, JsonHeaders)

\* a handleError that takes the status from the error, which carries none
HandleErrorBadStatus ==
  Response(0, [kind |-> "json", fields |-> {"error", "message", "timestamp"}],
    FALSE, JsonHeaders)

HandleError ==
  Response(500, [kind |-> "json", fields |-> {"error", "message", "timestamp"}],
    FALSE, JsonHeaders)

\* the plain-text status-400 responses of handleWebSocket
WsReject ==
  Response(400, [kind |-> "text", fields |-> {}], FALSE,
    [n \in {"content-type"} |-> <<"text/plain;charset=UTF-8">>])

\* the status-101 response that hands the client end of the pair to the caller
WsSwitching == Response(101, NoBody, TRUE, NoHeaders)

(***************************************************************************)
(* WebSocket frames and the sockets' API.                                  *)
(***************************************************************************)
Frames == [type : {"text", "binary"}, data : {"ping", "pong"}]

\* event.data of a message event: a string for a text frame, else an ArrayBuffer
EventData(frame) ==
  [js |-> IF frame.type = "text" THEN "string" ELSE "ArrayBuffer", bytes |-> frame.data]

\* a send() that writes every payload as a text frame
SendFrameAsText(data) == [type |-> "text", data |-> data.bytes]

\* the frame WebSocket.prototype.send(data) writes
SendFrame(data) ==
  [type |-> IF data.js = "string" THEN "text" ELSE "binary", data |-> data.bytes]

Socks == {"server", "target"}

Peer(s) == IF s = "server" THEN "target" ELSE "server"

\* readyState after close() is called on a socket in state st
AfterClose(st) == IF st \in {"CLOSING", "CLOSED"} THEN st ELSE "CLOSING"

(***************************************************************************)
(* handleWebSocket and connectWebSocket.                                   *)
(***************************************************************************)
\* a target taken from the path when the query parameter is missing
WsTargetParamOrPath(q) ==
  IF Truthy(SearchParamsGet(q.search)) THEN SearchParamsGet(q.search)
  ELSE Substring1(q.path)

\* the target string handleWebSocket reads from the request
WsTargetParam(q) == SearchParamsGet(q.search)

\* whether new WebSocket(url) throws: always for a scheme other than ws and
\* wss, and otherwise when the runtime refuses the connection at once
WebSocketCtorThrows(url, envFail) ==
  \/ ~ParseURL(url).valid
  \/ ParseURL(url).scheme \notin {"ws", "wss"}
  \/ envFail

\* a connectWebSocket whose catch block only logs
ConnectWebSocketNoClose(url, envFail) ==
  IF WebSocketCtorThrows(url, envFail)
  THEN [target |-> "NONE", wired |-> FALSE, server |-> "OPEN", serverCloses |-> 0]
  ELSE [target |-> "CONNECTING", wired |-> TRUE, server |-> "OPEN", serverCloses |-> 0]

\* connectWebSocket(serverWs, url) up to its return: the state of the
\* outbound socket, whether the listeners are attached, and what was done to
\* the accepted inbound socket
ConnectWebSocket(url, envFail) ==
  IF WebSocketCtorThrows(url, envFail)
  THEN [target |-> "NONE", wired |-> FALSE, server |-> AfterClose("OPEN"),
        serverCloses |-> 1]
  ELSE [target |-> "CONNECTING", wired |-> TRUE, server |-> "OPEN", serverCloses |-> 0]

\* a response that reports a dial that failed at once as a client error
WsResponseIfConnected(conn) == IF conn.wired THEN WsSwitching ELSE WsReject

\* the response handleWebSocket returns after connectWebSocket was called
WsResponse(conn) == WsSwitching

\* what handling a request leaves behind when it touches no socket
NoEffect ==
  [resp |-> NoResp, dialed |-> <<>>, fetched |-> <<>>, server |-> "NONE",
   target |-> "NONE", wired |-> FALSE, serverCloses |-> 0, thrown |-> FALSE]

\* a handleWebSocket that dials a second time when the first dial failed
HandleWebSocketRedial(q, envFail) ==
  LET targetParam == WsTargetParam(q)
      targetUrl   == ParseURL(targetParam)
      dialUrl     == Serialize(CoerceScheme(targetUrl))
      conn        == ConnectWebSocket(dialUrl, envFail)
  IN IF ~Truthy(targetParam) THEN [NoEffect EXCEPT !.resp = WsReject]
     ELSE IF ~targetUrl.valid THEN [NoEffect EXCEPT !.resp = WsReject]
     ELSE [resp |-> WsResponse(conn),
           dialed |-> IF conn.wired THEN <<dialUrl>> ELSE <<dialUrl, dialUrl>>,
           fetched |-> <<>>, server |-> conn.server, target |-> conn.target,
           wired |-> conn.wired, serverCloses |-> conn.serverCloses, thrown |-> FALSE]

\* handleWebSocket(request, url)
HandleWebSocket(q, envFail) ==
  LET targetParam == WsTargetParam(q)
      targetUrl   == ParseURL(targetParam)
      dialUrl     == Serialize(CoerceScheme(targetUrl))
      conn        == ConnectWebSocket(dialUrl, envFail)
  IN IF ~Truthy(targetParam) THEN [NoEffect EXCEPT !.resp = WsReject]
     ELSE IF ~targetUrl.valid THEN [NoEffect EXCEPT !.resp = WsReject]
     ELSE [resp |-> WsResponse(conn), dialed |-> <<dialUrl>>, fetched |-> <<>>,
           server |-> conn.server, target |-> conn.target, wired |-> conn.wired,
           serverCloses |-> conn.serverCloses, thrown |-> FALSE]

\* the codes a close event carries: normal closure, and a code of the
\* application
CloseCodes == {1000, 4000}

\* the arguments of a close() call made without arguments: the close frame
\* then carries no code
NoArgs == [code |-> 0]

\* the arguments the close listeners pass to close(): none, whatever the
\* code of the close event they handle
CloseListenerArgs(code) == NoArgs

\* a close listener that closes the outbound socket whatever its state
OnServerCloseUnguarded(targetState) == AfterClose(targetState)

\* the close listener of the inbound socket: the new state of the outbound one
OnServerClose(targetState) == IF targetState = "OPEN" THEN AfterClose(targetState) ELSE targetState

\* the close listener of the outbound socket: the new state of the inbound one
OnTargetClose(serverState) == IF serverState = "OPEN" THEN AfterClose(serverState) ELSE serverState

\* the error listener of the inbound socket: the new state of the outbound one
OnServerError(targetState) == IF targetState = "OPEN" THEN AfterClose(targetState) ELSE targetState

\* an error listener that only logs
OnTargetErrorLogOnly(serverState) == serverState

\* the error listener of the outbound socket: the new state of the inbound one
OnTargetError(serverState) == IF serverState = "OPEN" THEN AfterClose(serverState) ELSE serverState

\* message listeners without a guard
ForwardsAlways(destState) == TRUE

\* message listeners that send unless the destination is closed
ForwardsUnlessClosed(destState) == destState # "CLOSED"

\* a message listener that also sends to a socket that is still connecting
ForwardsWhileConnecting(destState) == destState \in {"OPEN", "CONNECTING"}

\* the guard of both message listeners: readyState === WebSocket.OPEN
Forwards(destState) == destState = "OPEN"

(***************************************************************************)
(* handleHTTP.                                                             *)
(***************************************************************************)
\* a resolution that takes the target from the path and the query string
ResolveHTTPPathWithQuery(q, dflt) ==
  LET targetParam == SearchParamsGet(q.search)
      pathTarget  == Substring1(q.path)
  IN IF Truthy(targetParam) THEN targetParam
     ELSE IF Truthy(pathTarget) /\ StartsWithHttp(pathTarget) THEN pathTarget \o q.search
     ELSE IF Truthy(dflt) THEN dflt \o q.path \o q.search
     ELSE Null

\* the target string handleHTTP resolves, or Null for the info response
ResolveHTTP(q, dflt) ==
  LET targetParam == SearchParamsGet(q.search)
      pathTarget  == Substring1(q.path)
  IN IF Truthy(targetParam) THEN targetParam
     ELSE IF Truthy(pathTarget) /\ StartsWithHttp(pathTarget) THEN pathTarget
     ELSE IF Truthy(dflt) THEN dflt \o q.path \o q.search
     ELSE Null

\* a sanitising that leaves the Origin header of the caller in place
SanitizeInboundKeepOrigin(headers, target) ==
  HeadersSet(HeadersDeleteAll(headers, REMOVE_HEADERS), "Host", HostOf(target))

\* a sanitising that tells the target which Host the caller asked for
SanitizeInboundForwardHost(headers, target) ==
  HeadersSet(
    HeadersDeleteAll(
      HeadersSet(HeadersDeleteAll(headers, REMOVE_HEADERS), "Host", HostOf(target)),
      {"Origin"}),
    "x-forwarded-host", HeadersGet(headers, "Host"))

\* the headers of the outbound request
SanitizeInbound(headers, target) ==
  HeadersDeleteAll(
    HeadersSet(HeadersDeleteAll(headers, REMOVE_HEADERS), "Host", HostOf(target)),
    {"Origin"})

\* a Request built without the body of the inbound request
ModifiedRequestNoBody(q, target) ==
  [url |-> Serialize(target), method |-> q.method,
   headers |-> SanitizeInbound(q.headers, target), body |-> Null]

\* the Request handleHTTP passes to fetch
ModifiedRequest(q, target) ==
  [url |-> Serialize(target), method |-> q.method,
   headers |-> SanitizeInbound(q.headers, target), body |-> q.body]

\* a catch block that answers with a bare bad-gateway status
HandleHTTPCatchBadGateway ==
  Response(502, [kind |-> "text", fields |-> {}], FALSE,
    [n \in {"content-type"} |-> <<"text/plain;charset=UTF-8">>])

\* the catch block of handleHTTP
HandleHTTPCatch == HandleError

\* a handleHTTP that fetches the target once to probe it and once more for
\* the request
HandleHTTPProbeFirst(q, dflt) ==
  LET targetUrl == ResolveHTTP(q, dflt)
      target    == ParseURL(targetUrl)
  IN IF targetUrl = Null THEN [NoEffect EXCEPT !.resp = CreateInfoResponse]
     ELSE IF ~target.valid THEN [NoEffect EXCEPT !.resp = HandleHTTPCatch]
     ELSE [NoEffect EXCEPT
             !.fetched = <<ModifiedRequest(q, target), ModifiedRequest(q, target)>>]

\* handleHTTP(request, url) up to the await of the outbound fetch
HandleHTTP(q, dflt) ==
  LET targetUrl == ResolveHTTP(q, dflt)
      target    == ParseURL(targetUrl)
  IN IF targetUrl = Null THEN [NoEffect EXCEPT !.resp = CreateInfoResponse]
     ELSE IF ~target.valid THEN [NoEffect EXCEPT !.resp = HandleHTTPCatch]
     ELSE [NoEffect EXCEPT !.fetched = <<ModifiedRequest(q, target)>>]

\* response.body of a target's response: a stream of the target's bytes
Stream(data) == [kind |-> "stream", fields |-> {}, data |-> data]

\* the headers of a target that sends its own CORS and security headers and
\* echoes headers of the removal list
TargetHdrFull ==
  [n \in {"access-control-allow-origin", "access-control-allow-methods",
          "access-control-allow-headers", "x-frame-options",
          "x-content-type-options", "cf-ray", "x-real-ip", "content-type"} |->
     CASE n = "access-control-allow-origin"  -> <<"https://t.example">>
       [] n = "access-control-allow-methods" -> <<"GET">>
       [] n = "access-control-allow-headers" -> <<"x-token">>
       [] n = "x-frame-options"              -> <<"DENY">>
       [] n = "x-content-type-options"       -> <<"sniff">>
       [] n = "cf-ray"                       -> <<"abc">>
       [] n = "x-real-ip"                    -> <<"198.51.100.9">>
       [] n = "content-type"                 -> <<"text/html">>]

\* the headers a target sends
TargetHeaderSets ==
  {NoHeaders,
   [n \in {"access-control-allow-origin", "cf-ray"} |->
      IF n = "cf-ray" THEN <<"abc">> ELSE <<"https://t.example">>],
   TargetHdrFull}

\* the responses a target gives: success, a client error and a server error
\* without reason phrase
TargetResponses ==
  {tr \in [status : {200, 404, 503}, statusText : {"OK", "Not Found", ""},
           headers : TargetHeaderSets,
           body : {Stream(<<"hello">>), Stream(<<"oops">>)}] :
     /\ tr.statusText = (CASE tr.status = 200 -> "OK" [] tr.status = 404 -> "Not Found"
                           [] OTHER -> "")
     /\ tr.body = (IF tr.status = 200 THEN Stream(<<"hello">>) ELSE Stream(<<"oops">>))
     /\ tr.status = 404 => tr.headers # NoHeaders}

\* CORS headers that are set only where the target sent none
AddCorsIfAbsent(headers, cors) ==
  IF cors.enabled
  THEN Merge([n \in {"access-control-allow-origin", "access-control-allow-methods",
                     "access-control-allow-headers"} |->
                CASE n = "access-control-allow-origin"  -> cors.allowOrigin
                  [] n = "access-control-allow-methods" -> cors.allowMethods
                  [] n = "access-control-allow-headers" -> cors.allowHeaders],
             headers)
  ELSE headers

\* the CORS headers handleHTTP sets when the policy is enabled
AddCors(headers, cors) ==
  IF cors.enabled
  THEN HeadersSet(HeadersSet(HeadersSet(headers,
         "access-control-allow-origin", cors.allowOrigin),
         "access-control-allow-methods", cors.allowMethods),
         "access-control-allow-headers", cors.allowHeaders)
  ELSE headers

\* security headers that give way to the values the target sent
AddSecurityIfAbsent(headers, security) == Merge(security, headers)

\* the security headers handleHTTP sets, one set call for each entry
AddSecurity(headers, security) == Merge(headers, security)

\* the removal list applied to the headers of the response
RemoveOutbound(headers, remove) == HeadersDeleteAll(headers, remove)

\* the three steps with the removal list applied before the injections
DecorateWithRemoveFirst(headers, cors, security, remove) ==
  AddSecurity(AddCors(RemoveOutbound(headers, remove), cors), security)

\* the three steps handleHTTP applies to the headers of the response, for a
\* CONFIG with the given CORS policy, security headers and removal list
DecorateWith(headers, cors, security, remove) ==
  RemoveOutbound(AddSecurity(AddCors(headers, cors), security), remove)

\* the headers of the relayed response
DecorateOutbound(headers, enabled) ==
  DecorateWith(headers, [CORS EXCEPT !.enabled = enabled], SECURITY_HEADERS,
               REMOVE_HEADERS)

\* a response that answers an error status of the target with the relay's
\* own error response
ModifiedResponseOwnError(tr, enabled) ==
  IF tr.status >= 400 THEN HandleError
  ELSE [Response(tr.status, tr.body, FALSE, DecorateOutbound(tr.headers, enabled))
          EXCEPT !.statusText = tr.statusText]

\* the response handleHTTP builds from the target's response
ModifiedResponse(tr, enabled) ==
  [Response(tr.status, tr.body, FALSE, DecorateOutbound(tr.headers, enabled))
     EXCEPT !.statusText = tr.statusText]

\* a dispatch that looks at the Upgrade header before the method
DispatchUpgradeFirst(q, dflt, envFail) ==
  IF HeadersGet(q.headers, "upgrade") = <<"websocket">> THEN HandleWebSocket(q, envFail)
  ELSE IF q.method = "OPTIONS" THEN [NoEffect EXCEPT !.resp = HandleCORS]
  ELSE HandleHTTP(q, dflt)

\* a dispatch that gives an upgrade request without target to handleHTTP
DispatchHttpFallback(q, dflt, envFail) ==
  IF q.method = "OPTIONS" THEN [NoEffect EXCEPT !.resp = HandleCORS]
  ELSE IF HeadersGet(q.headers, "upgrade") = <<"websocket">>
          /\ Truthy(SearchParamsGet(q.search))
       THEN HandleWebSocket(q, envFail)
  ELSE HandleHTTP(q, dflt)

\* the body of the try block of fetch: preflight, then upgrade, then HTTP
Dispatch(q, dflt, envFail) ==
  IF q.method = "OPTIONS" THEN [NoEffect EXCEPT !.resp = HandleCORS]
  ELSE IF HeadersGet(q.headers, "upgrade") = <<"websocket">> THEN HandleWebSocket(q, envFail)
  ELSE HandleHTTP(q, dflt)

\* the fetch handler of the worker, up to its return or its first await: what
\* a handler throws is answered by the catch block with handleError
FetchHandler(q, dflt, envFail) ==
  LET e == Dispatch(q, dflt, envFail)
  IN IF e.thrown THEN [e EXCEPT !.resp = HandleError, !.thrown = FALSE] ELSE e

(***************************************************************************)
(* State.                                                                  *)
(***************************************************************************)
VARIABLES
  defaultTarget,  \* CONFIG.DEFAULT_TARGET
  corsEnabled,    \* CONFIG.CORS.enabled
  live,           \* the requests this run of the worker receives
  pc,             \* per request: "new", "awaitFetch" or "done"
  req,            \* per request: the inbound request
  resp,           \* per request: the response returned to the caller
  fetched,        \* per request: the requests passed to the outbound fetch
  dialed,         \* per request: the URLs passed to new WebSocket
  sock,           \* per request: readyState of the inbound and outbound socket
  wired,          \* per request: the listeners of connectWebSocket are attached
  everOpen,       \* per request: the outbound socket has been open
  closeEv,        \* per request and socket: its close event was delivered
  errEv,          \* per request and socket: its error event was delivered
  closeCalls,     \* per request and socket: calls of close() by the relay
  recv,           \* per request and socket: the message events delivered
  sent,           \* per request and socket: the frames the relay sent on it
  fetchOutcome,   \* per request: "none", or how its outbound fetch settled
  elapsed,        \* per request: time spent waiting for the outbound fetch (ms)
  targetResp,     \* per request: the response its outbound fetch resolved with
  closeCode,      \* per request and socket: the code of its close event, or 0
  closeArgs,      \* per request and socket: the arguments of the relay's close() calls
  deco            \* the response-header steps applied alone: arguments and result

vars ==
  <<defaultTarget, corsEnabled, live, pc, req, resp, fetched, dialed, sock, wired,
    everOpen, closeEv, errEv, closeCalls, recv, sent, fetchOutcome, elapsed,
    targetResp, closeCode, closeArgs, deco>>

Reqs == 1..MaxReqs

\* targetResp while the outbound fetch has not resolved
NoTargetResp == [status |-> 0, statusText |-> "", headers |-> NoHeaders, body |-> NoBody]

NoReq ==
  [method |-> "", headers |-> NoHeaders, path |-> <<>>, search |-> <<>>, body |-> Null]

InitWith(liveSet) ==
  /\ defaultTarget \in DefaultTargets
  /\ corsEnabled \in BOOLEAN
  /\ live = liveSet
  /\ pc = [r \in Reqs |-> "new"]
  /\ req = [r \in Reqs |-> NoReq]
  /\ resp = [r \in Reqs |-> NoResp]
  /\ fetched = [r \in Reqs |-> <<>>]
  /\ dialed = [r \in Reqs |-> <<>>]
  /\ sock = [r \in Reqs |-> [s \in Socks |-> "NONE"]]
  /\ wired = [r \in Reqs |-> FALSE]
  /\ everOpen = [r \in Reqs |-> FALSE]
  /\ closeEv = [r \in Reqs |-> [s \in Socks |-> FALSE]]
  /\ errEv = [r \in Reqs |-> [s \in Socks |-> FALSE]]
  /\ closeCalls = [r \in Reqs |-> [s \in Socks |-> 0]]
  /\ recv = [r \in Reqs |-> [s \in Socks |-> <<>>]]
  /\ sent = [r \in Reqs |-> [s \in Socks |-> <<>>]]
  /\ fetchOutcome = [r \in Reqs |-> "none"]
  /\ elapsed = [r \in Reqs |-> 0]
  /\ targetResp = [r \in Reqs |-> NoTargetResp]
  /\ closeCode = [r \in Reqs |-> [s \in Socks |-> 0]]
  /\ closeArgs = [r \in Reqs |-> [s \in Socks |-> <<>>]]

\* deco while the response-header steps are not applied alone
NoDeco == [headers |-> NoHeaders, remove |-> {}, applied |-> FALSE, out |-> NoHeaders]

Init == InitWith({1}) /\ deco = NoDeco

(***************************************************************************)
(* Actions.                                                                *)
(***************************************************************************)
\* the worker receives request r, one of the requests in given, and runs
\* fetch up to its return or first await
FetchFrom(r, given) ==
  /\ r \in live
  /\ pc[r] = "new"
  /\ \E q \in given, envFail \in BOOLEAN :
       LET e == FetchHandler(q, defaultTarget, envFail)
       IN /\ req' = [req EXCEPT ![r] = q]
          /\ resp' = [resp EXCEPT ![r] = e.resp]
          /\ pc' = [pc EXCEPT ![r] = IF e.resp = NoResp THEN "awaitFetch" ELSE "done"]
          /\ fetched' = [fetched EXCEPT ![r] = e.fetched]
          /\ dialed' = [dialed EXCEPT ![r] = e.dialed]
          /\ sock' = [sock EXCEPT ![r] = [server |-> e.server, target |-> e.target]]
          /\ wired' = [wired EXCEPT ![r] = e.wired]
          /\ closeCalls' = [closeCalls EXCEPT ![r]["server"] = e.serverCloses]
          /\ closeArgs' = [closeArgs EXCEPT ![r]["server"] =
                             IF e.serverCloses = 1 THEN <<NoArgs>> ELSE <<>>]
  /\ UNCHANGED <<fetchOutcome, elapsed>>
  /\ UNCHANGED <<closeCode, deco, targetResp, defaultTarget, corsEnabled, live, everOpen, closeEv, errEv, recv, sent>>

\* the worker receives request r, any request
Fetch(r) == FetchFrom(r, Requests)

\* the outbound fetch of request r resolves with a response of the target
FetchResolve(r) ==
  /\ pc[r] = "awaitFetch"
  /\ ParseURL(fetched[r][1].url).scheme \in {"http", "https"}
  /\ \E tr \in TargetResponses :
       /\ targetResp' = [targetResp EXCEPT ![r] = tr]
       /\ resp' = [resp EXCEPT ![r] = ModifiedResponse(tr, corsEnabled)]
  /\ pc' = [pc EXCEPT ![r] = "done"]
  /\ fetchOutcome' = [fetchOutcome EXCEPT ![r] = "resolved"]
  /\ UNCHANGED elapsed
  /\ UNCHANGED <<closeCode, closeArgs, deco, defaultTarget, corsEnabled, live, req, fetched, dialed, sock, wired, everOpen,
                 closeEv, errEv, closeCalls, recv, sent>>

\* the outbound fetch of request r rejects: the catch of handleHTTP answers
FetchReject(r) ==
  /\ pc[r] = "awaitFetch"
  /\ resp' = [resp EXCEPT ![r] = HandleHTTPCatch]
  /\ pc' = [pc EXCEPT ![r] = "done"]
  /\ fetchOutcome' = [fetchOutcome EXCEPT ![r] = "rejected"]
  /\ UNCHANGED elapsed
  /\ UNCHANGED <<closeCode, closeArgs, deco, targetResp, defaultTarget, corsEnabled, live, req, fetched, dialed, sock, wired, everOpen,
                 closeEv, errEv, closeCalls, recv, sent>>

\* time passes while request r waits for its outbound fetch; handleHTTP sets
\* no timer and passes no abort signal, so nothing but the fetch ends the wait
Tick(r) ==
  /\ pc[r] = "awaitFetch"
  /\ elapsed[r] < MaxElapsed
  /\ elapsed' = [elapsed EXCEPT ![r] = @ + TickMs]
  /\ UNCHANGED <<closeCode, closeArgs, deco, targetResp, defaultTarget, corsEnabled, live, pc, req, resp, fetched, dialed, sock,
                 wired, everOpen, closeEv, errEv, closeCalls, recv, sent, fetchOutcome>>

\* the outbound dial of session r completes; the relay listens for no open event
TargetOpen(r) ==
  /\ sock[r]["target"] = "CONNECTING"
  /\ sock' = [sock EXCEPT ![r]["target"] = "OPEN"]
  /\ everOpen' = [everOpen EXCEPT ![r] = TRUE]
  /\ UNCHANGED <<fetchOutcome, elapsed>>
  /\ UNCHANGED <<closeCode, closeArgs, deco, targetResp, defaultTarget, corsEnabled, live, pc, req, resp, fetched, dialed, wired,
                 closeEv, errEv, closeCalls, recv, sent>>

\* the number of message events delivered to the sessions 1..n
RECURSIVE MsgCount(_)
MsgCount(n) ==
  IF n = 0 THEN 0
  ELSE Len(recv[n]["server"]) + Len(recv[n]["target"]) + MsgCount(n - 1)

\* the message events of a run: MaxMsgs of them for one session, and one
\* fewer for each session more
MsgBudget == MaxMsgs - (Cardinality(live) - 1)

\* a message listener of a worker that keeps its outbound socket in one
\* variable of the module: what arrives on an inbound socket goes to the
\* outbound socket of the session that dialed last
MessageSharedTarget(r, s) ==
  LET d == IF s = "server"
           THEN CHOOSE x \in Reqs : wired[x] /\ \A y \in Reqs : wired[y] => y <= x
           ELSE r
  IN /\ wired[r]
     /\ sock[r][s] \in {"OPEN", "CLOSING"}
     /\ ~closeEv[r][s]
     /\ MsgCount(MaxReqs) < MsgBudget
     /\ \E f \in Frames :
          /\ recv' = [recv EXCEPT ![r][s] =
                        Append(@, [frame |-> f, peerOpen |-> sock[d][Peer(s)] = "OPEN"])]
          /\ sent' = IF Forwards(sock[d][Peer(s)])
                     THEN [sent EXCEPT ![d][Peer(s)] = Append(@, SendFrame(EventData(f)))]
                     ELSE sent
     /\ UNCHANGED <<fetchOutcome, elapsed>>
     /\ UNCHANGED <<closeCode, closeArgs, deco, targetResp, defaultTarget, corsEnabled, live, pc, req, resp,
                    fetched, dialed, sock, wired, everOpen, closeEv, errEv, closeCalls>>

\* a message listener that queues what it forwards and flushes the queue
\* newest first
MessageNewestFirst(r, s) ==
  /\ wired[r]
  /\ sock[r][s] \in {"OPEN", "CLOSING"}
  /\ ~closeEv[r][s]
  /\ MsgCount(MaxReqs) < MsgBudget
  /\ \E f \in Frames :
       /\ recv' = [recv EXCEPT ![r][s] =
                     Append(@, [frame |-> f, peerOpen |-> sock[r][Peer(s)] = "OPEN"])]
       /\ sent' = IF Forwards(sock[r][Peer(s)])
                  THEN [sent EXCEPT ![r][Peer(s)] = <<SendFrame(EventData(f))>> \o @]
                  ELSE sent
  /\ UNCHANGED <<fetchOutcome, elapsed>>
  /\ UNCHANGED <<closeCode, closeArgs, deco, targetResp, defaultTarget, corsEnabled, live,
                 pc, req, resp, fetched, dialed, sock, wired, everOpen, closeEv, errEv,
                 closeCalls>>

\* a message event on socket s of session r, with its listener
Message(r, s) ==
  /\ wired[r]
  /\ sock[r][s] \in {"OPEN", "CLOSING"}
  /\ ~closeEv[r][s]
  /\ MsgCount(MaxReqs) < MsgBudget
  /\ \E f \in Frames :
       /\ recv' = [recv EXCEPT ![r][s] =
                     Append(@, [frame |-> f, peerOpen |-> sock[r][Peer(s)] = "OPEN"])]
       /\ sent' = IF Forwards(sock[r][Peer(s)])
                  THEN [sent EXCEPT ![r][Peer(s)] = Append(@, SendFrame(EventData(f)))]
                  ELSE sent
  /\ UNCHANGED <<fetchOutcome, elapsed>>
  /\ UNCHANGED <<closeCode, closeArgs, deco, targetResp, defaultTarget, corsEnabled, live, pc, req, resp, fetched, dialed, sock, wired,
                 everOpen, closeEv, errEv, closeCalls>>

\* the state of the peer of s after the close listener of s ran
CloseListener(s, peerState) ==
  IF s = "server" THEN OnServerClose(peerState) ELSE OnTargetClose(peerState)

\* the state of the peer of s after the error listener of s ran
ErrorListener(s, peerState) ==
  IF s = "server" THEN OnServerError(peerState) ELSE OnTargetError(peerState)

\* socket s of session r closes with one of the codes given: its close
\* event, with its listener if attached
CloseWith(r, s, codes) ==
  /\ sock[r][s] # "NONE"
  /\ ~closeEv[r][s]
  /\ closeEv' = [closeEv EXCEPT ![r][s] = TRUE]
  /\ \E code \in codes :
       LET peer == IF wired[r] THEN CloseListener(s, sock[r][Peer(s)]) ELSE sock[r][Peer(s)]
       IN /\ closeCode' = [closeCode EXCEPT ![r][s] = code]
          /\ sock' = [sock EXCEPT ![r] = [t \in Socks |-> IF t = s THEN "CLOSED" ELSE peer]]
          /\ closeCalls' = [closeCalls EXCEPT ![r][Peer(s)] =
                              IF peer # sock[r][Peer(s)] THEN @ + 1 ELSE @]
          /\ closeArgs' = [closeArgs EXCEPT ![r][Peer(s)] =
                             IF peer # sock[r][Peer(s)]
                             THEN Append(@, CloseListenerArgs(code)) ELSE @]
  /\ UNCHANGED <<fetchOutcome, elapsed>>
  /\ UNCHANGED <<deco, targetResp, defaultTarget, corsEnabled, live, pc, req, resp, fetched, dialed, wired, everOpen,
                 errEv, recv, sent>>

\* socket s of session r closes, with any code
Close(r, s) == CloseWith(r, s, CloseCodes)

\* socket s of session r fails: its error event, with its listener if attached
Error(r, s) ==
  /\ sock[r][s] \notin {"NONE", "CLOSED"}
  /\ ~closeEv[r][s]
  /\ ~errEv[r][s]
  /\ errEv' = [errEv EXCEPT ![r][s] = TRUE]
  /\ LET peer == IF wired[r] THEN ErrorListener(s, sock[r][Peer(s)]) ELSE sock[r][Peer(s)]
     IN /\ sock' = [sock EXCEPT ![r] = [t \in Socks |-> IF t = s THEN "CLOSED" ELSE peer]]
        /\ closeCalls' = [closeCalls EXCEPT ![r][Peer(s)] =
                            IF peer # sock[r][Peer(s)] THEN @ + 1 ELSE @]
        /\ closeArgs' = [closeArgs EXCEPT ![r][Peer(s)] =
                           IF peer # sock[r][Peer(s)] THEN Append(@, NoArgs) ELSE @]
  /\ UNCHANGED <<fetchOutcome, elapsed>>
  /\ UNCHANGED <<closeCode, deco, targetResp, defaultTarget, corsEnabled, live, pc, req, resp, fetched, dialed, wired, everOpen,
                 closeEv, recv, sent>>

Next ==
  \E r \in Reqs :
    \/ Fetch(r)
    \/ FetchResolve(r)
    \/ FetchReject(r)
    \/ Tick(r)
    \/ TargetOpen(r)
    \/ \E s \in Socks : Message(r, s)
    \/ \E s \in Socks : Close(r, s)
    \/ \E s \in Socks : Error(r, s)

Spec == Init /\ [][Next]_vars

(***************************************************************************)
(* The response-header steps of handleHTTP as a function of the headers    *)
(* the target sent and of the CONFIG the worker is deployed with.          *)
(***************************************************************************)
\* header sets of a target: any of four headers, two of which the relay
\* injects itself and one of which is in the removal list
DecoHeaderSets ==
  {[n \in names |-> TargetHdrFull[n]] :
     names \in SUBSET {"access-control-allow-origin", "x-frame-options", "cf-ray",
                       "content-type"}}

\* removal lists of a deployment: the one shipped, and that one extended by
\* a security header or by a CORS header
RemoveLists ==
  {REMOVE_HEADERS, REMOVE_HEADERS \cup {"x-frame-options"},
   REMOVE_HEADERS \cup {"access-control-allow-origin"}}

DecorateInit ==
  /\ InitWith({})
  /\ deco \in [headers : DecoHeaderSets, remove : RemoveLists, applied : {FALSE},
                out : {NoHeaders}]

\* handleHTTP, from the construction of modifiedResponse to its return,
\* applied to the headers of deco
Decorate ==
  /\ ~deco.applied
  /\ deco' = [deco EXCEPT !.applied = TRUE,
                          !.out = DecorateWith(deco.headers,
                                    [CORS EXCEPT !.enabled = corsEnabled],
                                    SECURITY_HEADERS, deco.remove)]
  /\ UNCHANGED <<defaultTarget, corsEnabled, live, pc, req, resp, fetched, dialed, sock,
                 wired, everOpen, closeEv, errEv, closeCalls, recv, sent, fetchOutcome,
                 elapsed, targetResp, closeCode, closeArgs>>

DecorateSpec == DecorateInit /\ [][Decorate]_vars

(***************************************************************************)
(* Several WebSocket sessions relayed by one worker at the same time.      *)
(***************************************************************************)
\* the upgrade requests of the concurrent sessions: all for the same target
SessionRequests ==
  {q \in Requests :
     /\ q.method = "GET" /\ q.headers = [n \in {"upgrade"} |-> <<"websocket">>]
     /\ q.path = <<"/">> /\ q.search = <<"?", "target=">> \o S_wss}

\* the sessions that run at the same time
ConcurrentSessions == {1, 2}

\* the worker as shipped, about to receive the requests of two sessions
ConcurrentInit ==
  /\ InitWith(ConcurrentSessions)
  /\ defaultTarget = Null
  /\ corsEnabled = CORS.enabled
  /\ deco = NoDeco

\* the events of the sessions, interleaved in any order; every close is a
\* normal closure
ConcurrentNext ==
  \E r \in Reqs :
    \/ FetchFrom(r, SessionRequests)
    \/ TargetOpen(r)
    \/ \E s \in Socks : Message(r, s)
    \/ \E s \in Socks : CloseWith(r, s, {1000})
    \/ \E s \in Socks : Error(r, s)

ConcurrentSpec == ConcurrentInit /\ [][ConcurrentNext]_vars

(***************************************************************************)
(* Two HTTP requests handled by one worker, to compare what each of them   *)
(* makes the worker send to the target.                                    *)
(***************************************************************************)
\* HdrFull as another caller sends it: other Host, Origin and edge headers
HdrFullOther ==
  [n \in DOMAIN HdrFull |->
     CASE n = "host"             -> <<"other-relay.example">>
       [] n = "origin"           -> <<"https://evil.example">>
       [] n = "cf-ray"           -> <<"0a1b2c3d4e5f">>
       [] n = "cf-connecting-ip" -> <<"198.51.100.23">>
       [] n = "x-forwarded-for"  -> <<"198.51.100.23">>
       [] n = "x-real-ip"        -> <<"198.51.100.23">>
       [] OTHER                  -> HdrFull[n]]

\* the headers of the application in HdrFull, and nothing else
HdrKept == [n \in {"authorization", "content-type"} |-> HdrFull[n]]

\* HdrKept with the token of another user
HdrKeptOther ==
  [n \in {"authorization", "content-type"} |->
     IF n = "authorization" THEN <<"Bearer 0th3r">> ELSE HdrFull[n]]

\* the requests of the pair: to two targets and with five header sets
PairRequests ==
  {q \in [method : {"GET", "POST"},
          headers : {HdrFull, HdrFullOther, HdrKept, HdrKeptOther, HdrPlain},
          path : {<<"/">>},
          search : {<<"?", "target=">> \o S_https, <<"?", "target=">> \o S_httpq},
          body : RequestBodies] :
     q.body # Null <=> q.method = "POST"}

PairInit == InitWith({1, 2}) /\ deco = NoDeco

\* the worker receives the two requests, in either order, and handles each
\* up to the await of its outbound fetch
PairNext == \E r \in Reqs : FetchFrom(r, PairRequests)

PairSpec == PairInit /\ [][PairNext]_vars

(***************************************************************************)
(* Properties.                                                             *)
(***************************************************************************)
\* request q carries the upgrade signal and is not a preflight
IsUpgrade(q) == q.method # "OPTIONS" /\ HeadersGet(q.headers, "upgrade") = <<"websocket">>

\* the close or the error event of socket s of session r is delivered in this step
ClosesOrErrors(r, s) ==
  \/ closeEv'[r][s] /\ ~closeEv[r][s]
  \/ errEv'[r][s] /\ ~errEv[r][s]

\* a message event of socket s of session r is delivered in this step
Receives(r, s) == recv'[r][s] # recv[r][s]

\* the frame of the message event delivered in this step
Received(r, s) == recv'[r][s][Len(recv'[r][s])].frame

\* C1: whenever the close or the error event of one socket of a session is
\* delivered while the other socket is open, close() is called on the other
\* socket in that same step (it becomes closing), in both directions.
SymmetricClose ==
  [][\A r \in Reqs, s \in Socks :
       ClosesOrErrors(r, s) /\ sock[r][Peer(s)] = "OPEN"
         => /\ closeCalls'[r][Peer(s)] = closeCalls[r][Peer(s)] + 1
            /\ sock'[r][Peer(s)] = "CLOSING"]_vars

\* an error of the outbound socket has made the relay close the open inbound one
SymmetricCloseWitness ==
  \E r \in Reqs :
    /\ wired[r] /\ everOpen[r]
    /\ errEv[r]["target"] /\ ~errEv[r]["server"] /\ ~closeEv[r]["server"]
    /\ closeCalls[r]["server"] = 1 /\ sock[r]["server"] = "CLOSING"

\* C2: once a socket of a session has closed or errored, the other socket is
\* not left open (also when the inbound socket goes first and the dial
\* succeeds afterwards).
NoHalfOpen ==
  \A r \in Reqs, s \in Socks :
    (closeEv[r][s] \/ errEv[r][s]) => sock[r][Peer(s)] # "OPEN"

\* the outbound dial of session r has failed: the constructor threw, or the
\* outbound socket errored or closed without ever having been open
DialFailed(r) ==
  /\ dialed[r] # <<>>
  /\ \/ sock[r]["target"] = "NONE"
     \/ ~everOpen[r] /\ (errEv[r]["target"] \/ closeEv[r]["target"])

\* C3: when the outbound dial has failed, the inbound socket is no longer
\* open, and it was closed by the relay unless it had closed or errored itself.
DialFailureClosesInbound ==
  \A r \in Reqs :
    DialFailed(r) =>
      /\ sock[r]["server"] \in {"CLOSING", "CLOSED"}
      /\ closeCalls[r]["server"] = 1 \/ closeEv[r]["server"] \/ errEv[r]["server"]

\* the constructor threw and the relay closed the accepted inbound socket
DialFailureWitness ==
  \E r \in Reqs :
    /\ dialed[r] # <<>> /\ sock[r]["target"] = "NONE"
    /\ closeCalls[r]["server"] = 1 /\ sock[r]["server"] = "CLOSING"

\* C4: a message event delivered while both sockets are open is sent to the
\* other socket as the same frame (type and payload), and the relay sends
\* nothing but the frame of the message event it is handling.
MessageIntegrity ==
  [][\A r \in Reqs, s \in Socks :
       /\ Receives(r, s) /\ sock[r]["server"] = "OPEN" /\ sock[r]["target"] = "OPEN"
            => sent'[r][Peer(s)] = Append(sent[r][Peer(s)], Received(r, s))
       /\ sent'[r][Peer(s)] # sent[r][Peer(s)]
            => /\ Receives(r, s)
               /\ sent'[r][Peer(s)] = Append(sent[r][Peer(s)], Received(r, s))
               /\ sent'[r][s] = sent[r][s]]_vars

\* a binary frame went from the inbound to the outbound socket and a text
\* frame the other way
MessageIntegrityWitness ==
  \E r \in Reqs :
    /\ Len(sent[r]["target"]) = 1 /\ sent[r]["target"][1].type = "binary"
    /\ Len(sent[r]["server"]) = 1 /\ sent[r]["server"][1].type = "text"

\* C5: a message event delivered while the destination socket is not open
\* changes nothing but the record of its arrival (nothing is sent, no socket
\* changes state, close() is not called, no response changes), and a frame is
\* sent to a socket only in the step of a message event that finds it open.
DropWhenNotOpen ==
  [][\A r \in Reqs, s \in Socks :
       /\ Receives(r, s) /\ sock[r][Peer(s)] # "OPEN"
            => /\ sent' = sent /\ sock' = sock /\ closeCalls' = closeCalls
               /\ closeEv' = closeEv /\ errEv' = errEv /\ resp' = resp /\ pc' = pc
       /\ sent'[r][Peer(s)] # sent[r][Peer(s)]
            => Receives(r, s) /\ sock[r][Peer(s)] = "OPEN"]_vars

\* the caller's message arrived before the dial completed, the outbound
\* socket has opened since, and nothing was sent to it
DropWitness ==
  \E r \in Reqs :
    /\ Len(recv[r]["server"]) > 0 /\ ~recv[r]["server"][1].peerOpen
    /\ sock[r]["target"] = "OPEN" /\ sent[r]["target"] = <<>>

\* C6: an upgrade request whose target parameter parses as a URL gets the
\* status-101 response with the caller's socket, with the inbound socket
\* accepted and one dial made, whatever became of the dial.
UpgradeAccepted ==
  \A r \in Reqs :
    pc[r] = "done" /\ IsUpgrade(req[r])
      /\ ParseAbsolute(SearchParamsGet(req[r].search)).valid
      => /\ resp[r].status = 101 /\ resp[r].webSocket
         /\ sock[r]["server"] # "NONE"
         /\ Len(dialed[r]) = 1

\* status 101 was returned although the dial failed at once
UpgradeAcceptedWitness ==
  \E r \in Reqs :
    resp[r].status = 101 /\ dialed[r] # <<>> /\ sock[r]["target"] = "NONE"

\* C7: an upgrade request without a non-empty target parameter gets status
\* 400, and no socket exists, nothing is dialed and nothing is fetched for it.
UpgradeMissingTarget ==
  \A r \in Reqs :
    pc[r] # "new" /\ IsUpgrade(req[r]) /\ ~Truthy(SearchParamsGet(req[r].search))
      => /\ pc[r] = "done" /\ resp[r].status = 400
         /\ sock[r]["server"] = "NONE" /\ sock[r]["target"] = "NONE"
         /\ dialed[r] = <<>> /\ fetched[r] = <<>>

\* such a request was refused although its path holds a URL and a default
\* target is configured
UpgradeMissingTargetWitness ==
  \E r \in Reqs :
    /\ IsUpgrade(req[r]) /\ ~Truthy(SearchParamsGet(req[r].search))
    /\ req[r].path = <<"/">> \o S_https /\ defaultTarget # Null
    /\ resp[r].status = 400

\* C8: an upgrade request whose target parameter is not a valid absolute URL
\* gets status 400, and no socket exists and nothing is dialed for it.
UpgradeMalformedTarget ==
  \A r \in Reqs :
    pc[r] # "new" /\ IsUpgrade(req[r]) /\ Truthy(SearchParamsGet(req[r].search))
      /\ ~ParseAbsolute(SearchParamsGet(req[r].search)).valid
      => /\ pc[r] = "done" /\ resp[r].status = 400
         /\ sock[r]["server"] = "NONE" /\ sock[r]["target"] = "NONE"
         /\ dialed[r] = <<>>

\* an upgrade request with a target without a scheme was refused
UpgradeMalformedTargetWitness ==
  \E r \in Reqs :
    /\ IsUpgrade(req[r]) /\ SearchParamsGet(req[r].search) = S_rel
    /\ resp[r].status = 400 /\ sock[r]["server"] = "NONE"

\* C9: the URL dialed for a target with scheme http has scheme ws, for https
\* it has wss, for ws and wss it has the target's scheme, and its host, port,
\* path and query are those of the target.
SchemeCoercion ==
  \A r \in Reqs :
    dialed[r] # <<>> =>
      LET t == ParseAbsolute(SearchParamsGet(req[r].search))
          d == ParseAbsolute(dialed[r][1])
      IN /\ t.valid /\ d.valid
         /\ d.host = t.host /\ d.port = t.port /\ d.path = t.path /\ d.query = t.query
         /\ t.scheme = "http" => d.scheme = "ws"
         /\ t.scheme = "https" => d.scheme = "wss"
         /\ t.scheme \in {"ws", "wss"} => d = t

\* an https target was dialed as wss
SchemeCoercionWitness ==
  \E r \in Reqs :
    /\ SearchParamsGet(req[r].search) = S_https
    /\ dialed[r] = << <<"wss", ":", "/", "/", "x.example", "/", "y">> >>

\* C10: every URL passed to the outbound fetch has a scheme among http,
\* https, ws and wss, every URL passed to the outbound WebSocket dial has
\* scheme ws or wss, and all of them have a host.
TargetURLInvariant ==
  \A r \in Reqs :
    /\ \A i \in DOMAIN dialed[r] :
         /\ ParseAbsolute(dialed[r][i]).scheme \in {"ws", "wss"}
         /\ ParseAbsolute(dialed[r][i]).host # ""
    /\ \A i \in DOMAIN fetched[r] :
         /\ ParseAbsolute(fetched[r][i].url).scheme \in {"http", "https", "ws", "wss"}
         /\ ParseAbsolute(fetched[r][i].url).host # ""

\* C11: every OPTIONS request gets status 204 with the configured
\* Access-Control-Allow-Origin, -Methods, -Headers and -Max-Age values, and
\* nothing is fetched, nothing is dialed and no socket exists for it.
PreflightAlways ==
  \A r \in Reqs :
    pc[r] # "new" /\ req[r].method = "OPTIONS"
      => /\ pc[r] = "done" /\ resp[r].status = 204
         /\ HeadersGet(resp[r].headers, "access-control-allow-origin") = CORS.allowOrigin
         /\ HeadersGet(resp[r].headers, "access-control-allow-methods") = CORS.allowMethods
         /\ HeadersGet(resp[r].headers, "access-control-allow-headers") = CORS.allowHeaders
         /\ HeadersGet(resp[r].headers, "access-control-max-age") = CORS.maxAge
         /\ fetched[r] = <<>> /\ dialed[r] = <<>>
         /\ sock[r]["server"] = "NONE" /\ sock[r]["target"] = "NONE"

\* an OPTIONS request with an Upgrade: websocket header and a target was
\* answered with 204 while CORS is disabled
PreflightWitness ==
  \E r \in Reqs :
    /\ req[r].method = "OPTIONS"
    /\ HeadersGet(req[r].headers, "upgrade") = <<"websocket">>
    /\ SearchParamsGet(req[r].search) = S_wss
    /\ ~corsEnabled
    /\ resp[r].status = 204

\* C12: a request other than OPTIONS with the header Upgrade: websocket is
\* answered by the WebSocket relay (status 101 or its status 400) and nothing
\* is fetched for it; one without that header gets no socket, no dial and no
\* status-101 response.
DispatchOrder ==
  \A r \in Reqs :
    pc[r] # "new" /\ req[r].method # "OPTIONS" =>
      IF HeadersGet(req[r].headers, "upgrade") = <<"websocket">>
      THEN /\ pc[r] = "done" /\ fetched[r] = <<>>
           /\ resp[r].status \in {101, 400}
           /\ resp[r].body.kind # "json"
      ELSE /\ sock[r]["server"] = "NONE" /\ sock[r]["target"] = "NONE"
           /\ dialed[r] = <<>>
           /\ resp[r].status # 101 /\ ~resp[r].webSocket

\* an upgrade request without target, for a path the default target would
\* serve, was refused by the WebSocket relay and nothing was fetched
DispatchWitness ==
  \E r \in Reqs :
    /\ IsUpgrade(req[r]) /\ SearchParamsGet(req[r].search) = Null
    /\ req[r].path = <<"/", "endpoint">> /\ defaultTarget # Null
    /\ resp[r].status = 400 /\ fetched[r] = <<>>

\* request q is one that fetch gives to handleHTTP
IsHTTP(q) == q.method # "OPTIONS" /\ HeadersGet(q.headers, "upgrade") # <<"websocket">>

\* s begins with the scheme literal http:// or https://
HasSchemeLiteral(s) ==
  Len(s) >= 4 /\ s[1] \in {"http", "https"} /\ s[2] = ":" /\ s[3] = "/" /\ s[4] = "/"

\* request r was answered with the info response and nothing was fetched
GotInfo(r) ==
  /\ pc[r] = "done" /\ fetched[r] = <<>>
  /\ resp[r].status = 200 /\ resp[r].body.kind = "json"
  /\ {"name", "version", "usage", "features"} \subseteq resp[r].body.fields

\* if target string t is a valid absolute URL, the one outbound fetch of
\* request r went to it
RelayedTo(r, t) ==
  ParseAbsolute(t).valid
    => Len(fetched[r]) = 1 /\ fetched[r][1].url = Serialize(ParseAbsolute(t))

\* C13: for a request handled by the HTTP relay the target is the non-empty
\* target parameter; else the path without its slash if it begins with
\* http:// or https://; else the default target with path and query; and with
\* none of the three the answer is the info response, not an error response.
ResolutionOrder ==
  \A r \in Reqs :
    pc[r] # "new" /\ IsHTTP(req[r]) =>
      LET targetParam == SearchParamsGet(req[r].search)
          pathTarget  == Substring1(req[r].path)
      IN IF Truthy(targetParam) THEN RelayedTo(r, targetParam)
         ELSE IF HasSchemeLiteral(pathTarget) THEN RelayedTo(r, pathTarget)
         ELSE IF Truthy(defaultTarget)
              THEN RelayedTo(r, defaultTarget \o req[r].path \o req[r].search)
         ELSE GotInfo(r)

\* C14: without a target parameter, a path that does not begin with http://
\* or https:// is not taken as the target: the request is relayed to the
\* default target, or gets the info response when there is none; and a path
\* is fetched as the target only if it begins with one of the two literals.
PathNeedsSchemeLiteral ==
  \A r \in Reqs :
    pc[r] # "new" /\ IsHTTP(req[r]) /\ ~Truthy(SearchParamsGet(req[r].search))
      /\ ~HasSchemeLiteral(Substring1(req[r].path))
      => IF Truthy(defaultTarget)
         THEN /\ Len(fetched[r]) = 1
              /\ ParseAbsolute(fetched[r][1].url).host = "api.example.com"
         ELSE GotInfo(r)

\* C15: when neither the target parameter nor the path supplies a target and
\* a default target is configured, the URL fetched is the default target
\* followed by the request's path and query string.
DefaultTargetURL ==
  \A r \in Reqs :
    pc[r] # "new" /\ IsHTTP(req[r]) /\ ~Truthy(SearchParamsGet(req[r].search))
      /\ ~HasSchemeLiteral(Substring1(req[r].path)) /\ Truthy(defaultTarget)
      => /\ Len(fetched[r]) = 1
         /\ fetched[r][1].url = defaultTarget \o req[r].path \o req[r].search

\* C16: a request handled by the HTTP relay whose target parameter is not a
\* valid absolute URL is answered with status 400 and nothing is fetched.
MalformedTargetIs400 ==
  \A r \in Reqs :
    pc[r] # "new" /\ IsHTTP(req[r]) /\ Truthy(SearchParamsGet(req[r].search))
      /\ ~ParseAbsolute(SearchParamsGet(req[r].search)).valid
      => pc[r] = "done" /\ resp[r].status = 400 /\ fetched[r] = <<>>

\* the body of a structured error response
IsErrorBody(body) ==
  body.kind = "json" /\ body.fields = {"error", "message", "timestamp"}

\* C17: every response with status 400 or 500 that the worker builds itself
\* (every such response but a relayed one) has a JSON body with the fields
\* error, message and timestamp.
ErrorResponsesAreJson ==
  \A r \in Reqs :
    pc[r] = "done" /\ fetchOutcome[r] # "resolved" /\ resp[r].status \in {400, 500}
      => IsErrorBody(resp[r].body)

\* response p is one the runtime can deliver
WellFormed(p) ==
  /\ p.status = 101 \/ (p.status >= 200 /\ p.status <= 599)
  /\ p.webSocket <=> p.status = 101
  /\ p.status \in {101, 204} => p.body.kind = "none"
  /\ p.body.kind = "json" => "content-type" \in DOMAIN p.headers

\* C18: every request that completes has a well-formed response, a request
\* whose handling failed in the HTTP relay has the status-500 response with
\* the error body, and a response once returned is never replaced.
CatchAll ==
  [][\A r \in Reqs :
       /\ pc'[r] = "done" => WellFormed(resp'[r])
       /\ pc'[r] = "done" /\ fetchOutcome'[r] # "resolved" /\ IsHTTP(req'[r])
            /\ resp'[r].status # 200
            => resp'[r].status = 500 /\ IsErrorBody(resp'[r].body)
       /\ pc[r] = "done" => pc'[r] = "done" /\ resp'[r] = resp[r]]_vars

\* the outbound fetch of a request threw and the request completed with the
\* status-500 error response
CatchAllWitness ==
  \E r \in Reqs :
    /\ pc[r] = "done" /\ fetchOutcome[r] = "rejected"
    /\ ParseAbsolute(fetched[r][1].url).scheme = "ftp"
    /\ resp[r].status = 500

\* C19: when the outbound fetch fails, the response has status 500 and the
\* JSON error body, and its headers are those of the error response alone.
FetchFailureIs500 ==
  \A r \in Reqs :
    fetchOutcome[r] = "rejected"
      => /\ pc[r] = "done" /\ resp[r].status = 500
         /\ IsErrorBody(resp[r].body)
         /\ DOMAIN resp[r].headers = {"content-type"} \cup DOMAIN SECURITY_HEADERS

\* the fetch of an https target failed and status 500 was returned
FetchFailureWitness ==
  \E r \in Reqs :
    /\ fetchOutcome[r] = "rejected" /\ elapsed[r] > 0
    /\ fetched[r][1].url = S_https
    /\ resp[r].status = 500

\* C20: no request waits for its outbound fetch longer than the configured
\* timeout.
NoHang ==
  \A r \in Reqs : pc[r] = "awaitFetch" => elapsed[r] <= TIMEOUT

\* C21: one inbound request causes at most one outbound fetch call, exactly
\* one when its fetch resolved or rejected, and none when the request was
\* answered with the preflight response or with the info response.
NoRetry ==
  \A r \in Reqs :
    /\ Len(fetched[r]) <= 1
    /\ fetchOutcome[r] # "none" => Len(fetched[r]) = 1
    /\ pc[r] = "done" /\ req[r].method = "OPTIONS" => fetched[r] = <<>>
    /\ pc[r] = "done" /\ resp[r].body.kind = "json" /\ "usage" \in resp[r].body.fields
         => fetched[r] = <<>>

\* the one fetch of a POST failed and the request completed with that one call
NoRetryWitness ==
  \E r \in Reqs :
    /\ pc[r] = "done" /\ req[r].method = "POST"
    /\ fetchOutcome[r] = "rejected" /\ Len(fetched[r]) = 1

\* C22: the headers of every request passed to the outbound fetch contain no
\* name of the removal list and no Origin header, and their Host header is
\* the host (with the port, unless it is the default one) of the URL fetched.
InboundSanitised ==
  \A r \in Reqs : \A i \in 1..Len(fetched[r]) :
    LET h == fetched[r][i].headers
    IN /\ DOMAIN h \cap REMOVE_HEADERS = {}
       /\ "origin" \notin DOMAIN h
       /\ "host" \in DOMAIN h
       /\ h["host"] = HostOf(ParseAbsolute(fetched[r][i].url))

\* a request that came with Origin, its own Host and four headers of the
\* removal list was fetched from a target with a port
InboundSanitisedWitness ==
  \E r \in Reqs :
    /\ {"origin", "host", "cf-ray", "x-forwarded-for"} \subseteq DOMAIN req[r].headers
    /\ Len(fetched[r]) = 1
    /\ req[r].headers["host"] # fetched[r][1].headers["host"]
    /\ fetched[r][1].headers["host"] = <<"x.example", ":", "8080">>

\* C23: every request passed to the outbound fetch has the method and the
\* body of the inbound request; each inbound header other than Host, Origin
\* and the names of the removal list is in it with the same value; and it
\* has no header besides these and Host.
RequestPassThrough ==
  \A r \in Reqs : \A i \in 1..Len(fetched[r]) :
    LET f       == fetched[r][i]
        dropped == {"host", "origin"} \cup REMOVE_HEADERS
    IN /\ f.method = req[r].method
       /\ f.body = req[r].body
       /\ \A n \in DOMAIN req[r].headers \ dropped :
            n \in DOMAIN f.headers /\ f.headers[n] = req[r].headers[n]
       /\ DOMAIN f.headers \subseteq (DOMAIN req[r].headers \ dropped) \cup {"host"}

\* a POST with a body and with Authorization and Content-Type headers among
\* headers that are dropped was passed to the outbound fetch
RequestPassThroughWitness ==
  \E r \in Reqs :
    /\ req[r].method = "POST" /\ req[r].body = <<"payload">>
    /\ req[r].headers = HdrFull
    /\ Len(fetched[r]) = 1
    /\ DOMAIN fetched[r][1].headers = {"host", "authorization", "content-type"}

\* the three CORS headers handleHTTP sets
CorsNames ==
  {"access-control-allow-origin", "access-control-allow-methods",
   "access-control-allow-headers"}

\* C24: in a relayed response, with CORS enabled the headers
\* Access-Control-Allow-Origin, -Methods and -Headers have the configured
\* values whatever the target sent for them; with CORS disabled each of the
\* three is as the target sent it, or absent if the target sent none.
CorsOverwrite ==
  \A r \in Reqs :
    fetchOutcome[r] = "resolved" =>
      IF corsEnabled
      THEN /\ HeadersGet(resp[r].headers, "access-control-allow-origin") = <<"*">>
           /\ HeadersGet(resp[r].headers, "access-control-allow-methods")
                = <<"GET, POST, PUT, DELETE, OPTIONS, HEAD, PATCH">>
           /\ HeadersGet(resp[r].headers, "access-control-allow-headers") = <<"*">>
      ELSE \A n \in CorsNames :
             HeadersGet(resp[r].headers, n) = HeadersGet(targetResp[r].headers, n)

\* with CORS enabled, a target that sent its own values for the three
\* headers was relayed
CorsOverwriteWitness ==
  \E r \in Reqs :
    /\ fetchOutcome[r] = "resolved" /\ corsEnabled
    /\ CorsNames \subseteq DOMAIN targetResp[r].headers
    /\ \A n \in CorsNames : targetResp[r].headers[n] # resp[r].headers[n]

\* C25: every relayed response has X-Content-Type-Options, X-Frame-Options,
\* X-XSS-Protection and Referrer-Policy with the configured values, whatever
\* the target sent for them and whether CORS is enabled or not.
SecurityOverwrite ==
  \A r \in Reqs :
    fetchOutcome[r] = "resolved" =>
      /\ HeadersGet(resp[r].headers, "x-content-type-options") = <<"nosniff">>
      /\ HeadersGet(resp[r].headers, "x-frame-options") = <<"SAMEORIGIN">>
      /\ HeadersGet(resp[r].headers, "x-xss-protection") = <<"1; mode=block">>
      /\ HeadersGet(resp[r].headers, "referrer-policy")
           = <<"strict-origin-when-cross-origin">>

\* with CORS disabled, a target that sent other values for two of the
\* security headers was relayed
SecurityOverwriteWitness ==
  \E r \in Reqs :
    /\ fetchOutcome[r] = "resolved" /\ ~corsEnabled
    /\ HeadersGet(targetResp[r].headers, "x-frame-options") = <<"DENY">>
    /\ HeadersGet(targetResp[r].headers, "x-content-type-options") = <<"sniff">>
    /\ HeadersGet(resp[r].headers, "x-frame-options") = <<"SAMEORIGIN">>

\* C26: the headers handleHTTP returns contain no name of the removal list,
\* whether the target sent it or the relay injected it as a CORS or security
\* header: the removal comes last.
RemovalWins ==
  deco.applied => DOMAIN deco.out \cap deco.remove = {}

\* the removal list names a security header; the target sent that header
\* and a header of the shipped removal list, and neither is returned
RemovalWinsWitness ==
  /\ deco.applied
  /\ "x-frame-options" \in deco.remove
  /\ {"x-frame-options", "cf-ray"} \subseteq DOMAIN deco.headers
  /\ "x-content-type-options" \in DOMAIN deco.out
  /\ {"x-frame-options", "cf-ray"} \cap DOMAIN deco.out = {}

\* C27: every response the worker returns to an HTTP caller (relayed, info,
\* status-500 error, preflight, and the status-400 responses of the
\* WebSocket path) has the four configured security headers.
SecurityHeadersOnAll ==
  \A r \in Reqs :
    pc[r] = "done" /\ resp[r].status # 101 =>
      /\ HeadersGet(resp[r].headers, "x-content-type-options") = <<"nosniff">>
      /\ HeadersGet(resp[r].headers, "x-frame-options") = <<"SAMEORIGIN">>
      /\ HeadersGet(resp[r].headers, "x-xss-protection") = <<"1; mode=block">>
      /\ HeadersGet(resp[r].headers, "referrer-policy")
           = <<"strict-origin-when-cross-origin">>

\* C28: with CORS enabled, every response the worker returns to an HTTP
\* caller (relayed, preflight, info and error responses) has
\* Access-Control-Allow-Origin with the configured value.
CorsHeadersOnAll ==
  \A r \in Reqs :
    corsEnabled /\ pc[r] = "done" /\ resp[r].status # 101 =>
      HeadersGet(resp[r].headers, "access-control-allow-origin") = <<"*">>

\* C29: when the outbound fetch resolved, the response to the caller has the
\* status code, the status text and the body of the target's response, for
\* error statuses as for the others, and is not the relay's error response.
StatusBodyPassThrough ==
  \A r \in Reqs :
    fetchOutcome[r] = "resolved" =>
      /\ pc[r] = "done"
      /\ resp[r].status = targetResp[r].status
      /\ resp[r].statusText = targetResp[r].statusText
      /\ resp[r].body = targetResp[r].body
      /\ ~IsErrorBody(resp[r].body)

\* a target answered 404 Not Found with a body, and the caller got the same
StatusBodyPassThroughWitness ==
  \E r \in Reqs :
    /\ fetchOutcome[r] = "resolved"
    /\ targetResp[r].status = 404
    /\ resp[r].status = 404 /\ resp[r].statusText = "Not Found"
    /\ resp[r].body = Stream(<<"oops">>)

\* C30: a session has at most one outbound connection: the relay dials once
\* when it accepts the inbound socket, and no later step (a message, a close
\* or an error of either socket, a failed dial) dials again.
DialOnce ==
  [][\A r \in Reqs :
       /\ Len(dialed'[r]) <= 1
       /\ sock'[r]["server"] # "NONE" => Len(dialed'[r]) = 1
       /\ pc[r] # "new" => dialed'[r] = dialed[r]]_vars

\* the outbound socket of a session was open, failed and closed, the inbound
\* socket closed too, and the session still has its one dial
DialOnceWitness ==
  \E r \in Reqs :
    /\ everOpen[r] /\ errEv[r]["target"] /\ closeEv[r]["target"] /\ closeEv[r]["server"]
    /\ Len(dialed[r]) = 1

\* a message, close or error event is delivered to session r in this step
EventOn(r) ==
  recv'[r] # recv[r] \/ closeEv'[r] # closeEv[r] \/ errEv'[r] # errEv[r]

\* this step leaves everything of session r as it is
SessionUnchanged(r) ==
  /\ sock'[r] = sock[r] /\ sent'[r] = sent[r] /\ recv'[r] = recv[r]
  /\ closeCalls'[r] = closeCalls[r] /\ closeEv'[r] = closeEv[r] /\ errEv'[r] = errEv[r]
  /\ wired'[r] = wired[r] /\ everOpen'[r] = everOpen[r] /\ dialed'[r] = dialed[r]
  /\ pc'[r] = pc[r] /\ req'[r] = req[r] /\ resp'[r] = resp[r]

\* C31: with two sessions running at the same time, in every interleaving a
\* message, close or error event of one session sends nothing on, closes
\* nothing of and changes nothing of the other session, and no step changes
\* the configuration.
SessionIndependence ==
  [][/\ defaultTarget' = defaultTarget /\ corsEnabled' = corsEnabled
     /\ \A r \in Reqs :
          EventOn(r) => \A o \in Reqs \ {r} : SessionUnchanged(o)]_vars

\* one session forwarded a message and then closed while the other session,
\* dialed after it to the same target, stays open on both sides with nothing
\* sent on its sockets
SessionIndependenceWitness ==
  \E r \in Reqs : \E o \in Reqs \ {r} :
    /\ wired[r] /\ wired[o] /\ o > r
    /\ dialed[r] = dialed[o]
    /\ Len(sent[r]["target"]) = 1
    /\ closeEv[r]["server"] /\ closeCalls[r]["target"] = 1
    /\ sock[o] = [s \in Socks |-> "OPEN"]
    /\ sent[o] = [s \in Socks |-> <<>>] /\ closeCalls[o] = [s \in Socks |-> 0]

\* a close() call with arguments arg closes with code, or with a code that
\* means the same: a close without code stands for a normal closure
EquivalentCode(arg, code) == arg.code = code \/ (arg.code = 0 /\ code = 1000)

\* C32: when a socket of a session that was open on both sides closed with
\* a code and the relay closed the other socket in answer, it closed it with
\* the same or an equivalent code.
CloseCodePropagated ==
  \A r \in Reqs : \A s \in Socks :
    wired[r] /\ everOpen[r] /\ closeEv[r][s] /\ ~errEv[r][s]
      /\ Len(closeArgs[r][Peer(s)]) = 1
      => EquivalentCode(closeArgs[r][Peer(s)][1], closeCode[r][s])

\* a close or error event of a socket of session r has been handled
Terminal(r) == \E s \in Socks : closeEv[r][s] \/ errEv[r][s]

\* C33: once a close or error event was handled on either socket of a
\* session, no message is forwarded in either direction any more, whatever
\* events arrive later, and the session stays in that condition.
TerminalStates ==
  [][\A r \in Reqs :
       Terminal(r) => /\ sent'[r] = sent[r]
                      /\ \A s \in Socks : sock[r][s] = "CLOSED" => sock'[r][s] = "CLOSED"
                      /\ \E s \in Socks : closeEv'[r][s] \/ errEv'[r][s]]_vars

\* the inbound socket closed while the session was relaying; a message of
\* the target arrived afterwards and was not forwarded
TerminalStatesWitness ==
  \E r \in Reqs :
    /\ everOpen[r] /\ closeEv[r]["server"] /\ ~errEv[r]["server"]
    /\ ~closeEv[r]["target"] /\ ~errEv[r]["target"]
    /\ closeCalls[r]["target"] = 1
    /\ Len(recv[r]["target"]) = 1 /\ ~recv[r]["target"][1].peerOpen
    /\ sent[r]["server"] = <<>>

\* C34: in every interleaving of a session's events the relay sends on a
\* socket only when the state of that socket is open at the call; it never
\* sends on a connecting, closing or closed socket, and sending does not
\* change the state.
SendOnlyWhenOpen ==
  [][\A r \in Reqs, s \in Socks :
       sent'[r][s] # sent[r][s]
         => /\ sock[r][s] = "OPEN" /\ sock'[r][s] = "OPEN"
            /\ Len(sent'[r][s]) = Len(sent[r][s]) + 1]_vars

\* of two messages of the caller the first came while the outbound socket
\* was connecting and was dropped, the second came when it was open and was
\* sent
SendOnlyWhenOpenWitness ==
  \E r \in Reqs :
    /\ Len(recv[r]["server"]) = 2
    /\ ~recv[r]["server"][1].peerOpen /\ recv[r]["server"][2].peerOpen
    /\ Len(sent[r]["target"]) = 1

\* C35: within a session the relay calls close on each socket at most once,
\* and only on a socket that is open (for the inbound socket of a failed
\* dial: just accepted), whatever the order of the close and error events of
\* the two sockets.
CloseAtMostOnce ==
  [][\A r \in Reqs, s \in Socks :
       /\ closeCalls'[r][s] <= 1
       /\ Len(closeArgs'[r][s]) = closeCalls'[r][s]
       /\ closeCalls'[r][s] > closeCalls[r][s]
            => /\ sock[r][s] = "OPEN" \/ (pc[r] = "new" /\ s = "server")
               /\ sock'[r][s] = "CLOSING"]_vars

\* both sockets of a relaying session closed one after the other, the
\* inbound one first: the relay closed the outbound socket once and the
\* inbound socket never
CloseAtMostOnceWitness ==
  \E r \in Reqs :
    /\ everOpen[r] /\ closeEv[r]["server"] /\ closeEv[r]["target"]
    /\ ~errEv[r]["server"] /\ ~errEv[r]["target"]
    /\ closeCalls[r]["target"] = 1 /\ closeCalls[r]["server"] = 0

\* the message event e came while the other socket was open
CameWhileOpen(e) == e.peerOpen

\* the frames of the message events of seq, in their order
FramesOf(seq) == [i \in 1..Len(seq) |-> seq[i].frame]

\* C36: in each direction the frames the relay sent are the frames of the
\* message events that came while the destination was open, each once and
\* in the order of arrival: a subsequence of what was received, and all of
\* it if the destination was open throughout.
PerDirectionOrder ==
  \A r \in Reqs : \A s \in Socks :
    /\ sent[r][Peer(s)] = FramesOf(SelectSeq(recv[r][s], CameWhileOpen))
    /\ (\A i \in 1..Len(recv[r][s]) : recv[r][s][i].peerOpen)
         => sent[r][Peer(s)] = FramesOf(recv[r][s])

\* two different frames of the caller were sent to the target in the order
\* in which they came
PerDirectionOrderWitness ==
  \E r \in Reqs :
    /\ Len(recv[r]["server"]) = 2 /\ Len(sent[r]["target"]) = 2
    /\ recv[r]["server"][1].frame # recv[r]["server"][2].frame
    /\ sent[r]["target"][1] = recv[r]["server"][1].frame
    /\ sent[r]["target"][2] = recv[r]["server"][2].frame

\* the headers of h that the relay does not strip
KeptHeaders(h) ==
  [n \in DOMAIN h \ ({"origin", "host"} \cup REMOVE_HEADERS) |-> h[n]]

\* requests a and b are equal but for Origin, Host and removal-list headers
SameButStripped(a, b) ==
  /\ a.method = b.method /\ a.path = b.path /\ a.search = b.search /\ a.body = b.body
  /\ KeptHeaders(a.headers) = KeptHeaders(b.headers)

\* C37: two requests that are equal but for the presence or the values of
\* Origin, Host and removal-list headers make the worker pass identical
\* requests (URL, method, headers, body) to the outbound fetch.
NonInterference ==
  \A r1 \in Reqs, r2 \in Reqs :
    pc[r1] # "new" /\ pc[r2] # "new" /\ SameButStripped(req[r1], req[r2])
      => fetched[r1] = fetched[r2]

\* one POST came with Host, Origin and edge headers, the other without any
\* of them, and the same request went to the target for both
NonInterferenceWitness ==
  /\ req[1].method = "POST" /\ req[1].headers = HdrFullOther
  /\ req[2].method = "POST" /\ req[2].headers = HdrKept
  /\ req[1].search = req[2].search
  /\ Len(fetched[1]) = 1 /\ fetched[1] = fetched[2]

\* C38: of a request relayed without target parameter, the URL fetched is
\* the path without its slash and has no query string, whatever the query
\* string of the request, when the path begins with http:// or https://;
\* otherwise it is the default target followed by the path and by the query
\* string of the request.
PathTargetDropsQuery ==
  \A r \in Reqs :
    pc[r] # "new" /\ IsHTTP(req[r]) /\ ~Truthy(SearchParamsGet(req[r].search))
      /\ Len(fetched[r]) = 1
      => IF HasSchemeLiteral(Substring1(req[r].path))
         THEN /\ fetched[r][1].url = Serialize(ParseAbsolute(Substring1(req[r].path)))
              /\ ParseAbsolute(fetched[r][1].url).query = <<>>
         ELSE /\ fetched[r][1].url = defaultTarget \o req[r].path \o req[r].search
              /\ req[r].search # <<>>
                   => ParseAbsolute(fetched[r][1].url).query
                        = SubSeq(req[r].search, 2, Len(req[r].search))

\* a request for /https://x.example/y?q=1 was fetched from
\* https://x.example/y
PathTargetDropsQueryWitness ==
  \E r \in Reqs :
    /\ req[r].path = <<"/">> \o S_https /\ req[r].search = <<"?", "q=1">>
    /\ Len(fetched[r]) = 1 /\ fetched[r][1].url = S_https

====
